---- MODULE Spec2Model ----
(***************************************************************************)
(* package_script.py: copy two manifests of relative paths from the        *)
(* workspace tree into the Essential and the Bonus package trees.          *)
(*                                                                         *)
(* Paths are sequences of names.  A tree maps every path of its universe   *)
(* to a node: absent, a directory, or a regular file with its content,     *)
(* modification time and permission mode.  `workspace` is the tree at and  *)
(* below workspace_path; `cdrive` is the tree at and below the directory   *)
(* that holds the two package roots.  A path of length one hangs off a     *)
(* drive root, which always exists.                                        *)
(***************************************************************************)
EXTENDS Integers, Sequences, FiniteSets, TLC

\* Longest manifest the model draws.
MaxLen == 2

(***************************************************************************)
(* Paths                                                                   *)
(***************************************************************************)
\* The relative paths a manifest may list: a top-level file, a file one
\* directory down whose directory has the name of the first, and a file of
\* the same name in another directory.
Files == { <<"a">>, <<"a", "a">>, <<"d", "a">> }

Roots == { "Essential", "Bonus" }

\* Line 5
workspace_path == << "e:\\UnityProject\\ARPG Stats System" >>

\* The directory of lines 6 and 7
packages_path == << "c:\\ARPG Stats System" >>

Parent(p) == SubSeq(p, 1, Len(p) - 1)

Prefixes(p) == { SubSeq(p, 1, k) : k \in 0..Len(p) }

\* os.path.basename
basename(p) == p[Len(p)]

\* os.path.join(root, file), for a relative file
join(root, file) == root \o file

\* os.path.dirname
dirname(p) == Parent(p)

\* The manifest paths and the directories above them
RelSrc == UNION { Prefixes(f) : f \in Files }

SrcPaths == { workspace_path \o q : q \in RelSrc }

\* Relative paths under a package root that the run can touch: those of the
\* workspace, and p/basename(p), where copy2 writes when p is a directory.
RelDest == RelSrc \cup { p \o << basename(p) >> : p \in Files }

CPaths == { packages_path } \cup { packages_path \o << r >> \o q : r \in Roots, q \in RelDest }

(***************************************************************************)
(* Nodes                                                                   *)
(***************************************************************************)
Absent == [kind |-> "absent", content |-> <<>>, mtime |-> <<>>, mode |-> <<>>]

Dir == [kind |-> "dir", content |-> <<>>, mtime |-> <<>>, mode |-> <<>>]

\* The regular file at workspace path p: its bytes, time and mode are its own.
SrcFile(p) ==
    [kind |-> "file", content |-> <<"bytes">> \o p, mtime |-> <<"mtime">> \o p,
     mode |-> <<"mode">> \o p]

\* A file that was in a package tree before the run.
OldFile ==
    [kind |-> "file", content |-> <<"old">>, mtime |-> <<"old">>, mode |-> <<"old">>]

\* os.path.exists: a file or a directory is there
exists(t, p) == t[p].kind # "absent"

isdir(t, p) == t[p].kind = "dir"

isfile(t, p) == t[p].kind = "file"

\* The parent of the tree's top is a drive root.
ParentIsDir(t, p) == Len(p) = 1 \/ isdir(t, Parent(p))

(***************************************************************************)
(* Library calls                                                           *)
(***************************************************************************)
Ok(t) == [tree |-> t, error |-> ""]

Err(t, e) == [tree |-> t, error |-> e]

\* os.mkdir(name)
mkdir(t, name) ==
    IF exists(t, name) THEN Err(t, "FileExistsError")
    ELSE IF ~ParentIsDir(t, name)
         THEN Err(t, IF exists(t, Parent(name)) THEN "NotADirectoryError"
                     ELSE "FileNotFoundError")
    ELSE Ok([t EXCEPT ![name] = Dir])

\* os.makedirs(name, exist_ok): create the missing ancestors, then the leaf;
\* an error of the leaf's mkdir is dropped only if exist_ok and the leaf is a
\* directory.
RECURSIVE makedirs(_, _, _)
makedirs(t, name, exist_ok) ==
    LET up == IF Len(name) > 1 /\ ~exists(t, Parent(name))
              THEN makedirs(t, Parent(name), exist_ok)
              ELSE Ok(t)
    IN  IF up.error # "" THEN up
        ELSE LET made == mkdir(up.tree, name)
             IN  IF made.error # "" /\ exist_ok /\ isdir(up.tree, name)
                 THEN Ok(up.tree)
                 ELSE made

\* shutil.copyfile(src, dst): the source is opened first, then the
\* destination is created or truncated and the bytes are written.  A new
\* file gets the time of the write and the default mode; an overwritten one
\* keeps its mode.
copyfile(ws, src, t, dst) ==
    IF ~exists(ws, src) THEN Err(t, "FileNotFoundError")
    ELSE IF isdir(ws, src) THEN Err(t, "IsADirectoryError")
    ELSE IF isdir(t, dst) THEN Err(t, "IsADirectoryError")
    ELSE IF ~ParentIsDir(t, dst) THEN Err(t, "FileNotFoundError")
    ELSE Ok([t EXCEPT ![dst] =
                [kind |-> "file", content |-> ws[src].content, mtime |-> <<"now">>,
                 mode |-> IF isfile(t, dst) THEN t[dst].mode ELSE <<"umask">>]])

\* Mutant: the metadata is not copied (shutil.copy for shutil.copy2).
copystat_skipped(ws, src, t, dst) == t

\* shutil.copystat(src, dst): the destination takes the source's time and mode
copystat(ws, src, t, dst) ==
    [t EXCEPT ![dst].mtime = ws[src].mtime, ![dst].mode = ws[src].mode]

\* Where shutil.copy2(src, dst) writes: into dst when dst is a directory
copy2_target(src, t, dst) ==
    IF isdir(t, dst) THEN dst \o << basename(src) >> ELSE dst

\* shutil.copy2(src, dst)
copy2(ws, src, t, dst) ==
    LET target == copy2_target(src, t, dst)
        data   == copyfile(ws, src, t, target)
    IN  IF data.error # "" THEN data
        ELSE Ok(copystat(ws, src, data.tree, target))

(***************************************************************************)
(* One iteration of the loop of copy_files_with_structure                  *)
(***************************************************************************)
\* Line 39
source_path(file) == join(workspace_path, file)

\* Mutant: the package root is the essential one, whatever the argument.
dest_path_essential(destination, file) == join(packages_path \o <<"Essential">>, file)

\* Mutant: the folder structure is dropped.
dest_path_flat(destination, file) == join(destination, << basename(file) >>)

\* Line 40
dest_path(destination, file) == join(destination, file)

NotFoundLine(file) == <<"File not found: ">> \o source_path(file)

CompleteLine == <<"Packaging complete. Essential and Bonus packages are ready at C:\\ARPG Stats System.">>

\* The test of line 41
source_found(ws, file) == exists(ws, source_path(file))

\* Mutant: exist_ok is left out.
make_parent_strict(t, destination, file) ==
    makedirs(t, dirname(dest_path(destination, file)), FALSE)

\* Line 42
make_parent(t, destination, file) ==
    makedirs(t, dirname(dest_path(destination, file)), TRUE)

\* Lines 42-43, for a source that line 41 found
copy_entry(ws, t, file, destination) ==
    LET made == make_parent(t, destination, file)
    IN  IF made.error # "" THEN made
        ELSE copy2(ws, source_path(file), made.tree, dest_path(destination, file))

\* What an I/O fault of the environment (permission denied, disk full) can
\* leave behind when it strikes lines 42-43: makedirs stopped after any of
\* its levels, or copy2 stopped before opening the destination, while
\* writing it (a torn file), or before copystat.
fault_trees(ws, t, file, destination) ==
    LET name   == dirname(dest_path(destination, file))
        levels == { makedirs(t, SubSeq(name, 1, k), TRUE) : k \in 1..Len(name) }
        made   == make_parent(t, destination, file)
        target == copy2_target(source_path(file), made.tree, dest_path(destination, file))
        data   == copyfile(ws, source_path(file), made.tree, target)
        torn   == IF made.error = "" /\ data.error = ""
                  THEN { [data.tree EXCEPT ![target].content = <<"partial">>], data.tree }
                  ELSE {}
    IN  { t } \cup { r.tree : r \in { x \in levels : x.error = "" } } \cup torn

(***************************************************************************)
(* State                                                                   *)
(***************************************************************************)
VARIABLES
    workspace,                \* the tree under workspace_path
    cdrive,                   \* the tree under c:\ARPG Stats System
    essential_files,          \* lines 10-22
    bonus_files,              \* lines 25-34
    essential_package_path,   \* line 6
    bonus_package_path,       \* line 7
    pc,                       \* "essential" (line 48), "bonus" (line 51), "done"
    i,                        \* position of the loop of line 38 in its list
    stdout,                   \* the lines printed
    raised,                   \* the exception that ended the run, "" if none
    attempts,                 \* history: the <<destination, file>> pairs the loop took
    copied,                   \* history: what each completed copy2 wrote, and where
    start,                    \* history: cdrive at the start of each call
    outcome                   \* history: how each call that is over ended

vars == << workspace, cdrive, essential_files, bonus_files, essential_package_path,
           bonus_package_path, pc, i, stdout, raised, attempts, copied, start, outcome >>

config == << workspace, essential_files, bonus_files, essential_package_path,
             bonus_package_path >>

\* Mutant: the calls of lines 48 and 51 are given each other's list.
file_list_swapped == IF pc = "essential" THEN bonus_files ELSE essential_files

\* The arguments of the call the driver is in
file_list == IF pc = "essential" THEN essential_files ELSE bonus_files

destination == IF pc = "essential" THEN essential_package_path ELSE bonus_package_path

\* Mutant: an exception is swallowed and the run goes on.
InCall_swallowing == pc \in {"essential", "bonus"}

\* The driver is inside a call, and nothing was raised.
InCall == pc \in {"essential", "bonus"} /\ raised = ""

InLoop == InCall /\ i <= Len(file_list)

file == file_list[i]

(***************************************************************************)
(* Initial states                                                          *)
(***************************************************************************)
\* A manifest lists no path twice (as lines 10-34 do not).
Manifests ==
    UNION { { m \in [1..n -> Files] : \A j, k \in 1..n : j # k => m[j] # m[k] }
            : n \in 0..MaxLen }

\* The trees the workspace can be: files at the manifest paths and
\* directories above them, every entry inside a directory.
SrcKinds ==
    { k \in [RelSrc -> {"absent", "dir", "file"}] :
        /\ \A p \in RelSrc : k[p] = "dir" => \E q \in Files : p = Parent(q)
        /\ \A p \in RelSrc : k[p] = "file" => p \in Files
        /\ \A p \in RelSrc : p # <<>> /\ k[p] # "absent" => k[Parent(p)] = "dir" }

Rel(p, n) == SubSeq(p, n + 1, Len(p))

SrcTrees ==
    { [p \in SrcPaths |->
          LET q == Rel(p, Len(workspace_path))
          IN  IF k[q] = "file" THEN SrcFile(q)
              ELSE IF k[q] = "dir" THEN Dir ELSE Absent] : k \in SrcKinds }

\* What a package root holds before the run: nothing (the root is absent),
\* or one branch: the directories down to path q, and at q a directory or an
\* older file.
Branch(q, n) ==
    [p \in RelDest |-> IF p = q THEN n
                       ELSE IF p \in Prefixes(q) THEN Dir ELSE Absent]

RootSeeds ==
    { [p \in RelDest |-> Absent], Branch(<<>>, Dir) }
        \cup { Branch(q, n) : q \in Files, n \in {Dir, OldFile} }

Mount(top, e, b) ==
    [p \in CPaths |->
        IF p = packages_path THEN top
        ELSE LET r == p[Len(packages_path) + 1]
                 q == Rel(p, Len(packages_path) + 1)
             IN  IF r = "Essential" THEN e[q] ELSE b[q]]

Bare == { [p \in RelDest |-> Absent], Branch(<<>>, Dir) }

\* Before the run at most one of the two package roots holds anything.
CTrees ==
    { Mount(top, e, b) : top \in {Absent, Dir},
                         e \in RootSeeds, b \in Bare }
        \cup { Mount(Dir, e, b) : e \in Bare, b \in RootSeeds }

WellFormed(t, paths) ==
    \A p \in paths : Len(p) > 1 /\ exists(t, p) => isdir(t, Parent(p))

InitRun ==
    /\ pc = "essential"
    /\ i = 1
    /\ stdout = <<>>
    /\ raised = ""
    /\ attempts = <<>>
    /\ copied = {}
    /\ start = << cdrive >>
    /\ outcome = <<>>

Init ==
    /\ essential_files \in Manifests
    /\ bonus_files \in Manifests
    /\ essential_package_path = packages_path \o <<"Essential">>
    /\ bonus_package_path = packages_path \o <<"Bonus">>
    /\ workspace \in SrcTrees
    /\ cdrive \in { t \in CTrees : WellFormed(t, CPaths) }
    /\ InitRun

(***************************************************************************)
(* Actions                                                                 *)
(***************************************************************************)
Took == attempts' = Append(attempts, << destination, file >>)

\* The conditions under which each step is taken.  Every step below is its
\* condition and assignments that can always be made, so a step is possible
\* exactly when one of the conditions holds.
Found == InLoop /\ source_found(workspace, file)

NotFound == InLoop /\ ~source_found(workspace, file)

Copies == Found /\ copy_entry(workspace, cdrive, file, destination).error = ""

Raises == Found /\ copy_entry(workspace, cdrive, file, destination).error # ""

LoopOver == InCall /\ i > Len(file_list)

CanStep == Copies \/ NotFound \/ Raises \/ Found \/ LoopOver

\* Lines 41-43: the source is there, its directory is made and it is copied.
CopyFile ==
    /\ Copies
    /\ LET r == copy_entry(workspace, cdrive, file, destination)
           made == make_parent(cdrive, destination, file)
           target == copy2_target(source_path(file), made.tree,
                                  dest_path(destination, file))
       IN  /\ cdrive' = r.tree
           /\ copied' = copied \cup { [path |-> target, node |-> r.tree[target]] }
    /\ i' = i + 1
    /\ Took
    /\ UNCHANGED << config, pc, stdout, raised, start, outcome >>

\* Mutant: a missing source ends the loop (break).
FileNotFound_break ==
    /\ NotFound
    /\ stdout' = Append(stdout, NotFoundLine(file))
    /\ i' = Len(file_list) + 1
    /\ Took
    /\ UNCHANGED << config, cdrive, pc, raised, copied, start, outcome >>

\* Mutant: line 42 is run before the test of line 41.
FileNotFound_after_makedirs ==
    /\ NotFound
    /\ cdrive' = make_parent(cdrive, destination, file).tree
    /\ stdout' = Append(stdout, NotFoundLine(file))
    /\ i' = i + 1
    /\ Took
    /\ UNCHANGED << config, pc, raised, copied, start, outcome >>

\* Lines 41, 44-45: the source is not there.
FileNotFound ==
    /\ NotFound
    /\ stdout' = Append(stdout, NotFoundLine(file))
    /\ i' = i + 1
    /\ Took
    /\ UNCHANGED << config, cdrive, pc, raised, copied, start, outcome >>

\* Lines 42-43 raise because of what the trees hold; nothing catches it.
CopyRaises ==
    /\ Raises
    /\ LET r == copy_entry(workspace, cdrive, file, destination)
       IN  /\ cdrive' = r.tree
           /\ raised' = r.error
    /\ Took
    /\ UNCHANGED << config, pc, i, stdout, copied, start, outcome >>

\* Lines 42-43 raise because of a fault of the environment.
IOFault ==
    /\ Found
    /\ \E t \in fault_trees(workspace, cdrive, file, destination) : cdrive' = t
    /\ raised' = "OSError"
    /\ Took
    /\ UNCHANGED << config, pc, i, stdout, copied, start, outcome >>

\* Mutant: the completion line is printed at the end of every call.
NextCall_printing ==
    /\ LoopOver
    /\ pc = "essential"
    /\ pc' = "bonus"
    /\ i' = 1
    /\ stdout' = Append(stdout, CompleteLine)
    /\ start' = Append(start, cdrive)
    /\ outcome' = Append(outcome, "returned")
    /\ UNCHANGED << config, cdrive, raised, attempts, copied >>

\* Line 48 returns and line 51 calls.
NextCall ==
    /\ LoopOver
    /\ pc = "essential"
    /\ pc' = "bonus"
    /\ i' = 1
    /\ start' = Append(start, cdrive)
    /\ outcome' = Append(outcome, "returned")
    /\ UNCHANGED << config, cdrive, stdout, raised, attempts, copied >>

\* Line 51 returns and line 53 prints.
Complete ==
    /\ LoopOver
    /\ pc = "bonus"
    /\ pc' = "done"
    /\ stdout' = Append(stdout, CompleteLine)
    /\ outcome' = Append(outcome, "returned")
    /\ UNCHANGED << config, cdrive, i, raised, attempts, copied, start >>

Next ==
    \/ CopyFile
    \/ FileNotFound
    \/ CopyRaises
    \/ IOFault
    \/ NextCall
    \/ Complete

Spec == Init /\ [][Next]_vars

(***************************************************************************)
(* Two calls of copy_files_with_structure side by side                     *)
(*                                                                         *)
(* The same loop, driven as a test drives it: the second call is made      *)
(* whether or not the first one raised.                                    *)
(***************************************************************************)
\* The caller catches what the first call raised and makes the second call.
Catch ==
    /\ pc = "essential"
    /\ raised # ""
    /\ pc' = "bonus"
    /\ i' = 1
    /\ raised' = ""
    /\ start' = Append(start, cdrive)
    /\ outcome' = Append(outcome, raised)
    /\ UNCHANGED << config, cdrive, stdout, attempts, copied >>

NextBoth == Next \/ Catch

Reorderings(m) ==
    { [k \in 1..Len(m) |-> m[f[k]]] :
        f \in { g \in [1..Len(m) -> 1..Len(m)] :
                  \A j, k \in 1..Len(m) : j # k => g[j] # g[k] } }

\* The same manifest, twice, into the same package root.
InitTwice ==
    /\ essential_files \in Manifests
    /\ bonus_files = essential_files
    /\ essential_package_path = packages_path \o <<"Essential">>
    /\ bonus_package_path = essential_package_path
    /\ workspace \in SrcTrees
    /\ cdrive \in { t \in CTrees : WellFormed(t, CPaths) }
    /\ InitRun

SpecTwice == InitTwice /\ [][NextBoth]_vars

\* A manifest and a permutation of it, into two package roots that hold the
\* same to begin with.
InitPermuted ==
    /\ essential_files \in Manifests
    /\ bonus_files \in Reorderings(essential_files)
    /\ essential_package_path = packages_path \o <<"Essential">>
    /\ bonus_package_path = packages_path \o <<"Bonus">>
    /\ workspace \in SrcTrees
    /\ cdrive \in { Mount(Dir, e, e) : e \in RootSeeds }
    /\ InitRun

SpecPermuted == InitPermuted /\ [][NextBoth]_vars

(***************************************************************************)
(* Properties                                                              *)
(***************************************************************************)
Range(s) == { s[k] : k \in 1..Len(s) }

Count(s, x) == Cardinality({ k \in 1..Len(s) : s[k] = x })

\* The n-th call: its arguments, whether it returned, and the tree it left.
Manifest(n) == IF n = 1 THEN essential_files ELSE bonus_files

Root(n) == IF n = 1 THEN essential_package_path ELSE bonus_package_path

Returned(n) == Len(outcome) >= n /\ outcome[n] = "returned"

AtEnd(n) == IF n = 1 /\ Len(start) >= 2 THEN start[2] ELSE cdrive

\* What a package root holds, by relative path
Sub(t, root) == [q \in RelDest |-> t[root \o q]]

IsCopyOf(node, p) ==
    /\ node.kind = "file"
    /\ node.content = workspace[source_path(p)].content
    /\ node.mtime = workspace[source_path(p)].mtime

\* C1 as stated: after a call that returned, every manifest path that is a
\* regular file in the workspace is, at the same path under the destination,
\* a file with the source's content and modification time, whatever the
\* destination held before.
C1_Original ==
    \A n \in 1..2 : Returned(n) =>
        \A p \in Range(Manifest(n)) :
            isfile(workspace, source_path(p))
                => IsCopyOf(AtEnd(n)[dest_path(Root(n), p)], p)

\* C1, amended: the same, for every such path at which the destination did
\* not hold a directory when the call began.
C1_CopiedUnlessDirectory ==
    \A n \in 1..2 : Returned(n) =>
        \A p \in Range(Manifest(n)) :
            /\ isfile(workspace, source_path(p))
            /\ ~isdir(start[n], dest_path(Root(n), p))
            => IsCopyOf(AtEnd(n)[dest_path(Root(n), p)], p)

\* A call returned after overwriting an older, different file.
C1_Witness ==
    /\ Returned(1)
    /\ \E p \in Range(essential_files) :
          /\ isfile(workspace, source_path(p))
          /\ start[1][dest_path(essential_package_path, p)] = OldFile
          /\ IsCopyOf(start[2][dest_path(essential_package_path, p)], p)

Missing(p) == ~exists(workspace, workspace_path \o p)

ExpectedLine(p) == <<"File not found: ">> \o workspace_path \o p

\* One line for each missing entry taken so far, and no other such line
OneLinePerMissingEntry ==
    \A p \in Files :
        Count(stdout, ExpectedLine(p))
            = Cardinality({ k \in 1..Len(attempts) : attempts[k][2] = p /\ Missing(p) })

\* C2 as stated: each manifest entry that is absent from the workspace gets
\* exactly one "File not found" line, and if the destination did not have
\* that path before the call it does not have it after the call.
C2_Original ==
    /\ OneLinePerMissingEntry
    /\ \A n \in 1..2 : Returned(n) =>
          \A p \in Range(Manifest(n)) :
              Missing(p) /\ ~exists(start[n], Root(n) \o p)
                  => ~exists(AtEnd(n), Root(n) \o p)

\* The one way the path of a missing entry p comes to exist: the manifest
\* lists q with p = q/basename(q), q is a file in the workspace and the
\* destination holds a directory at q, into which copy2 writes q's copy.
WrittenInto(n, p) ==
    \E q \in Range(Manifest(n)) :
        /\ p = q \o << basename(q) >>
        /\ isfile(workspace, workspace_path \o q)
        /\ isdir(start[n], Root(n) \o q)

\* C2, amended: each missing entry gets exactly one line, handling it changes
\* nothing in the package trees, and a path the destination did not have
\* before the call is not there after it unless the copy of another entry
\* was written into a directory there.
C2_MissingReportedNotCreated ==
    /\ [](/\ OneLinePerMissingEntry
          /\ \A n \in 1..2 : Returned(n) =>
                \A p \in Range(Manifest(n)) :
                    Missing(p) /\ ~exists(start[n], Root(n) \o p) /\ ~WrittenInto(n, p)
                        => ~exists(AtEnd(n), Root(n) \o p))
    /\ [][InLoop /\ Missing(file)
            => cdrive' = cdrive /\ stdout' = Append(stdout, ExpectedLine(file))]_vars

\* A call returned that had a missing entry under a destination that had no
\* such path, and still has none, next to an entry that was copied.
C2_Witness ==
    /\ Returned(1)
    /\ copied # {}
    /\ \E p \in Range(essential_files) :
          /\ Missing(p)
          /\ ~exists(start[1], essential_package_path \o p)
          /\ ~exists(start[2], essential_package_path \o p)
          /\ ExpectedLine(p) \in Range(stdout)
    /\ pc = "bonus"
    /\ i = 1

Entries(files, root) == [k \in 1..Len(files) |-> << root, files[k] >>]

\* Every entry of both manifests, in the order of lines 48 and 51
AllEntries ==
    Entries(essential_files, essential_package_path)
        \o Entries(bonus_files, bonus_package_path)

IsPrefix(s, t) == Len(s) <= Len(t) /\ \A k \in 1..Len(s) : s[k] = t[k]

\* The entry was copied, if its source is there, and reported, if it is not.
Handled(e) ==
    IF Missing(e[2]) THEN ExpectedLine(e[2]) \in Range(stdout)
    ELSE \E c \in copied :
            /\ c.path \in { e[1] \o e[2], e[1] \o e[2] \o << basename(e[2]) >> }
            /\ IsCopyOf(c.node, e[2])

MissingTaken == \E k \in 1..Len(attempts) : Missing(attempts[k][2])

\* C3: once a missing entry was met and as long as nothing is raised, the run
\* goes on: it is never stuck before its end, and at its end every entry of
\* both manifests was taken, copied or reported, and the completion line is
\* printed.
C3_MissingNotFatal ==
    raised = "" /\ MissingTaken =>
        IF pc = "done"
        THEN /\ attempts = AllEntries
             /\ \A k \in 1..Len(AllEntries) : Handled(AllEntries[k])
             /\ stdout[Len(stdout)] = CompleteLine
        ELSE CanStep

\* The run is over, its first entry was missing, a later entry of the same
\* manifest was copied and the bonus manifest was handled too.
C3_Witness ==
    /\ pc = "done"
    /\ Len(essential_files) >= 2
    /\ Missing(essential_files[1])
    /\ ~Missing(essential_files[2])
    /\ Len(bonus_files) >= 1

\* C4: once an entry raised, nothing more happens: no step is possible, the
\* raising entry is the last one taken and was taken once, the completion line
\* is not printed, and what the earlier copies wrote is still there.
C4_FailureAborts ==
    raised # "" =>
        /\ ~CanStep
        /\ pc # "done"
        /\ CompleteLine \notin Range(stdout)
        /\ IsPrefix(attempts, AllEntries)
        /\ Len(attempts) = (IF pc = "essential" THEN 0 ELSE Len(essential_files)) + i
        /\ \A c \in copied : cdrive[c.path] = c.node

\* An entry of the essential manifest raised after an earlier one was copied,
\* with the bonus manifest still to come.
C4_Witness ==
    /\ raised # ""
    /\ pc = "essential"
    /\ copied # {}
    /\ i = Len(essential_files)
    /\ Len(bonus_files) >= 1

\* C5: the completion line is printed only when the run is complete, once, as
\* the last line, after every entry of both manifests was taken and every
\* "File not found" line printed; nothing follows it; and a run in which
\* nothing is raised is never stuck before it.
C5_CompleteOnceLast ==
    /\ pc = "done" =>
          /\ stdout # <<>>
          /\ stdout[Len(stdout)] = CompleteLine
          /\ Count(stdout, CompleteLine) = 1
          /\ attempts = AllEntries
          /\ OneLinePerMissingEntry
          /\ ~CanStep
    /\ pc # "done" => CompleteLine \notin Range(stdout)
    /\ pc # "done" /\ raised = "" => CanStep

\* The run is complete after copies and reports for both manifests.
C5_Witness ==
    /\ pc = "done"
    /\ Len(stdout) >= 3
    /\ \E c, d \in copied : c.path[2] = "Essential" /\ d.path[2] = "Bonus"

\* C10: the entries taken so far are the first ones of the essential manifest
\* followed by the bonus manifest, in list order, one attempt each; the run is
\* never stuck while nothing is raised, and when it is complete every entry
\* was taken and no step is left.
C10_AttemptsInOrder ==
    /\ IsPrefix(attempts, AllEntries)
    /\ raised = "" /\ pc = "essential" => Len(attempts) = i - 1
    /\ raised = "" /\ pc = "bonus" => Len(attempts) = Len(essential_files) + i - 1
    /\ pc # "done" /\ raised = "" => CanStep
    /\ pc = "done" => attempts = AllEntries /\ ~CanStep

\* The run is complete after two entries of each manifest.
C10_Witness ==
    /\ pc = "done"
    /\ Len(attempts) = 4
    /\ Len(essential_files) = 2

\* C6: a step of the essential call changes nothing at or under the bonus
\* package root, a step of the bonus call nothing at or under the essential
\* one, and no step changes the workspace.
C6_ManifestsIndependent ==
    [][/\ pc = "essential" =>
             Sub(cdrive', bonus_package_path) = Sub(cdrive, bonus_package_path)
       /\ pc = "bonus" =>
             Sub(cdrive', essential_package_path) = Sub(cdrive, essential_package_path)
       /\ workspace' = workspace]_vars

\* The essential call has written under its root, and the bonus root holds
\* the older file it held before.
C6_Witness ==
    /\ pc = "bonus"
    /\ \E c \in copied : cdrive[c.path] = c.node
    /\ \E q \in RelDest : cdrive[bonus_package_path \o q] = OldFile

\* The second of two calls is over.
SecondOver == pc = "done" \/ (pc = "bonus" /\ raised # "")

SecondOutcome == IF pc = "done" THEN "returned" ELSE raised

NoFault == SecondOver /\ outcome[1] # "OSError" /\ SecondOutcome # "OSError"

\* C7: with no fault of the environment, a second call with the same manifest,
\* workspace and destination ends as the first did (so it raises nothing if the
\* first raised nothing, though the directories now exist) and leaves the
\* package trees as the first call left them.
C7_SecondRunChangesNothing ==
    NoFault => SecondOutcome = outcome[1] /\ cdrive = start[2]

\* Both calls returned; the first one made directories and copied a file.
C7_Witness ==
    /\ pc = "done"
    /\ outcome[1] = "returned"
    /\ copied # {}
    /\ \E p \in CPaths : isdir(start[2], p) /\ ~exists(start[1], p)

\* C8 as stated: a manifest and a permutation of it, run from the same trees,
\* leave the same destination tree (here: with no fault of the environment,
\* and no manifest entry that is a directory in the workspace).
C8_Original ==
    /\ NoFault
    /\ \A p \in Range(essential_files) : ~isdir(workspace, workspace_path \o p)
    => Sub(cdrive, essential_package_path) = Sub(cdrive, bonus_package_path)

\* C8, amended: with no fault of the environment the call on the permutation
\* returns exactly if the call on the manifest does, and then both leave the
\* same destination tree and print the same "File not found" lines.
C8_SameTreeWhenReturned ==
    NoFault =>
        /\ outcome[1] = "returned" <=> SecondOutcome = "returned"
        /\ outcome[1] = "returned" =>
              /\ Sub(cdrive, essential_package_path) = Sub(cdrive, bonus_package_path)
              /\ \A p \in Files :
                    Count(stdout, ExpectedLine(p))
                        = IF p \in Range(essential_files) /\ Missing(p) THEN 2 ELSE 0

\* Both calls returned, on two different orders of a manifest of which both
\* entries were copied.
C8_Witness ==
    /\ pc = "done"
    /\ outcome[1] = "returned"
    /\ bonus_files # essential_files
    /\ Cardinality(copied) = 4

\* C9 as stated: an entry whose source is not a regular file (absent, or a
\* directory) gets the "File not found" line and the loop goes on, unless the
\* environment faults.
C9_Original ==
    [][InLoop /\ ~isfile(workspace, workspace_path \o file)
          => \/ /\ stdout' = Append(stdout, ExpectedLine(file))
                /\ raised' = ""
                /\ i' = i + 1
             \/ raised' = "OSError"]_vars

====
